---- MODULE Spec2Model ----
(***************************************************************************)
(* Federation link store of rauthy: src/data/src/entity/user_federation.rs *)
(*                                                                         *)
(* The module models the five operations of `impl UserFederation` (create, *)
(* find_for_user, find_by_federation_id, delete, delete_by_user_id), the   *)
(* error classifier map_unique_violation and the two storage engines the   *)
(* operations dispatch to (Hiqlite and Postgres).  Every operation is one  *)
(* asynchronous call: it builds its statement, reads is_hiqlite(), awaits  *)
(* one statement on the chosen engine and turns the engine's answer into   *)
(* its Result.  Calls of different tasks interleave at the await.          *)
(***************************************************************************)
EXTENDS Integers, Sequences, FiniteSets, Bags, TLC

VARIABLES
    hiqlite,    \* the process-wide flag read by is_hiqlite()
    tables,     \* engine -> rows of table user_federations held by that engine
    inflight,   \* bag of calls awaiting their statement
    returned,   \* the call that returns in the step just taken, with its
                \* Result; NoReturn after a step in which no call returns
    linked,     \* history: links whose create returned Ok and that no
                \* successful delete / delete_by_user_id has named since
    unit        \* the classifier applied to one error on its own (unit test)

vars == <<hiqlite, tables, inflight, returned, linked, unit>>

----------------------------------------------------------------------------
(* Bounds of the model.                                                    *)

\* calls that may be awaiting their statement at the same time
MaxInFlight == 2
\* fragments concatenated into one message handed to the classifier alone
MaxFragments == 3

\* links one user may hold in the tables the lookups of SpecManyLinks start from
MaxLinks == 12

\* values of the three string columns
UserIds == {"u1", "u2"}
ProviderIds == {"idp", "idp2"}
FederationUids == {"x", "y"}

----------------------------------------------------------------------------
(* Strings.                                                                *)

\* str::contains: pat occurs in s as a contiguous, case-sensitive substring
Contains(s, pat) ==
    \E i \in 1..(Len(s) - Len(pat) + 1) : SubSeq(s, i, i + Len(pat) - 1) = pat

----------------------------------------------------------------------------
(* Entity, errors, results.                                                *)

\* struct UserFederation { user_id, provider_id, federation_uid }
UserFederation ==
    [user_id : UserIds, provider_id : ProviderIds, federation_uid : FederationUids]

\* impl From<tokio_postgres::Row> for UserFederation (and the derived
\* Deserialize Hiqlite uses): the three columns, read by name
from_row(row) ==
    [user_id |-> row.user_id, provider_id |-> row.provider_id,
     federation_uid |-> row.federation_uid]

\* the kinds of ErrorResponseType this layer constructs or passes through
ErrorResponseType == {"BadRequest", "Database", "Internal", "NotAccepted", "NotFound"}

\* ErrorResponse::new(error, message)
ErrorResponse_new(error, message) == [error |-> error, message |-> message]

\* Result<T, ErrorResponse>
Ok(v) == [ok |-> TRUE, value |-> v]
Err(e) == [ok |-> FALSE, error |-> e]

\* the text map_unique_violation looks for, and the message it answers with
Marker == "UNIQUE"
LinkedMessage == "Upstream user id is already linked to another account"

----------------------------------------------------------------------------
(* The error classifier.                                                   *)

\* as map_unique_violation, with starts_with in place of contains
map_unique_violation_starts_with(err) ==
    IF Len(err.message) >= Len(Marker)
       /\ SubSeq(err.message, 1, Len(Marker)) = Marker
    THEN ErrorResponse_new("NotAccepted", LinkedMessage)
    ELSE err

\* as map_unique_violation, with the marker matched in either case
map_unique_violation_any_case(err) ==
    IF Contains(err.message, Marker) \/ Contains(err.message, "unique")
    THEN ErrorResponse_new("NotAccepted", LinkedMessage)
    ELSE err

\* fn map_unique_violation(err: ErrorResponse) -> ErrorResponse
map_unique_violation(err) ==
    IF Contains(err.message, Marker)
    THEN ErrorResponse_new("NotAccepted", LinkedMessage)
    ELSE err

----------------------------------------------------------------------------
(* Statements.  A statement is its verb, the columns of an INSERT, the     *)
(* columns its WHERE clause compares with $1, $2, ... and the parameters   *)
(* bound to $1, $2, ... in order.                                          *)

Statement(verb, columns, where, params) ==
    [verb |-> verb, columns |-> columns, where |-> where, params |-> params]

\* as create_sql, with $2 and $3 bound the other way round
create_sql_swapped(new_federation) ==
    Statement("INSERT", <<"user_id", "provider_id", "federation_uid">>, <<>>,
              <<new_federation.user_id, new_federation.federation_uid,
                new_federation.provider_id>>)

\* INSERT INTO user_federations (user_id, provider_id, federation_uid)
\*   VALUES ($1, $2, $3)
create_sql(new_federation) ==
    Statement("INSERT", <<"user_id", "provider_id", "federation_uid">>, <<>>,
              <<new_federation.user_id, new_federation.provider_id,
                new_federation.federation_uid>>)

\* as find_for_user_sql, with WHERE provider_id = $1
find_for_user_sql_provider(user_id) ==
    Statement("SELECT", <<>>, <<"provider_id">>, <<user_id>>)

\* SELECT * FROM user_federations WHERE user_id = $1
find_for_user_sql(user_id) ==
    Statement("SELECT", <<>>, <<"user_id">>, <<user_id>>)

\* as find_by_federation_id_sql, with $1 and $2 bound the other way round
find_by_federation_id_sql_swapped(provider_id, federation_uid) ==
    Statement("SELECT", <<>>, <<"provider_id", "federation_uid">>,
              <<federation_uid, provider_id>>)

\* SELECT * FROM user_federations WHERE provider_id = $1 AND federation_uid = $2
find_by_federation_id_sql(provider_id, federation_uid) ==
    Statement("SELECT", <<>>, <<"provider_id", "federation_uid">>,
              <<provider_id, federation_uid>>)

\* as delete_sql, with WHERE user_id = $1 AND provider_id = $1
delete_sql_one_parameter(self) ==
    Statement("DELETE", <<>>, <<"user_id", "provider_id">>,
              <<self.user_id, self.user_id>>)

\* as delete_sql, with the provider_id condition left out
delete_sql_user_only(self) ==
    Statement("DELETE", <<>>, <<"user_id">>, <<self.user_id>>)

\* DELETE FROM user_federations WHERE user_id = $1 AND provider_id = $2
delete_sql(self) ==
    Statement("DELETE", <<>>, <<"user_id", "provider_id">>,
              <<self.user_id, self.provider_id>>)

\* as delete_by_user_id_sql, with WHERE provider_id = $1
delete_by_user_id_sql_provider(user_id) ==
    Statement("DELETE", <<>>, <<"provider_id">>, <<user_id>>)

\* DELETE FROM user_federations WHERE user_id = $1
delete_by_user_id_sql(user_id) ==
    Statement("DELETE", <<>>, <<"user_id">>, <<user_id>>)

----------------------------------------------------------------------------
(* Backend selection: each operation reads is_hiqlite() once and awaits    *)
(* one primitive of the engine of that branch.                             *)

Engines == {"hql", "pg"}

\* the expected-rows hint find_for_user hands to DB::pg_query
PgSizeHint == 10

is_hiqlite == hiqlite

\* the storage call an operation awaits
Request(engine, primitive, stmt, size_hint) ==
    [engine |-> engine, primitive |-> primitive, stmt |-> stmt,
     size_hint |-> size_hint]

create_request(new_federation) ==
    IF is_hiqlite
    THEN Request("hql", "execute", create_sql(new_federation), 0)
    ELSE Request("pg", "pg_execute", create_sql(new_federation), 0)

find_for_user_request(user_id) ==
    IF is_hiqlite
    THEN Request("hql", "query_as", find_for_user_sql(user_id), 0)
    ELSE Request("pg", "pg_query", find_for_user_sql(user_id), PgSizeHint)

find_by_federation_id_request(provider_id, federation_uid) ==
    IF is_hiqlite
    THEN Request("hql", "query_as_one",
                 find_by_federation_id_sql(provider_id, federation_uid), 0)
    ELSE Request("pg", "pg_query_one",
                 find_by_federation_id_sql(provider_id, federation_uid), 0)

\* as delete_request, with the other engine on each branch
delete_request_other_engine(self) ==
    IF is_hiqlite
    THEN Request("pg", "pg_execute", delete_sql(self), 0)
    ELSE Request("hql", "execute", delete_sql(self), 0)

delete_request(self) ==
    IF is_hiqlite
    THEN Request("hql", "execute", delete_sql(self), 0)
    ELSE Request("pg", "pg_execute", delete_sql(self), 0)

delete_by_user_id_request(user_id) ==
    IF is_hiqlite
    THEN Request("hql", "execute", delete_by_user_id_sql(user_id), 0)
    ELSE Request("pg", "pg_execute", delete_by_user_id_sql(user_id), 0)

----------------------------------------------------------------------------
(* What each operation returns once its awaited storage call has answered  *)
(* with res.                                                               *)

\* as create_result, with the error of the insert dropped
create_result_ignores_error(new_federation, res) == Ok(new_federation)

\* .map_err(map_unique_violation)?; Ok(new_federation)
create_result(new_federation, res) ==
    IF res.ok THEN Ok(new_federation) ELSE Err(map_unique_violation(res.error))

\* as find_for_user_result, with the error put through map_unique_violation
find_for_user_result_classified(res) ==
    IF res.ok THEN Ok(res.value) ELSE Err(map_unique_violation(res.error))

\* let res = ...await?; Ok(res)
find_for_user_result(res) ==
    IF res.ok THEN Ok(res.value) ELSE Err(res.error)

\* let res = ...await?; Ok(res)
find_by_federation_id_result(res) ==
    IF res.ok THEN Ok(res.value) ELSE Err(res.error)

\* as delete_result, with a delete of no row answered NotFound
delete_result_needs_a_row(res) ==
    IF res.ok
    THEN IF res.value = 0
         THEN Err(ErrorResponse_new("NotFound", "no such link"))
         ELSE Ok(<<>>)
    ELSE Err(res.error)

\* ...await?; Ok(())
delete_result(res) ==
    IF res.ok THEN Ok(<<>>) ELSE Err(res.error)

\* ...await?; Ok(())
delete_by_user_id_result(res) ==
    IF res.ok THEN Ok(<<>>) ELSE Err(res.error)

----------------------------------------------------------------------------
(* The storage engines behind DB::hql() and DB::pg_*.  Both hold table     *)
(* user_federations with the same two uniqueness constraints and run one   *)
(* statement atomically.                                                   *)

\* the row an INSERT binds: column i takes parameter $i
InsertedRow(stmt) ==
    [c \in {stmt.columns[i] : i \in 1..Len(stmt.columns)} |->
        stmt.params[CHOOSE i \in 1..Len(stmt.columns) : stmt.columns[i] = c]]

\* the rows the WHERE clause of stmt selects
Matching(rows, stmt) ==
    {r \in rows : \A i \in 1..Len(stmt.where) : r[stmt.where[i]] = stmt.params[i]}

\* the uniqueness constraints of the table: the columns of each
UniqueConstraints ==
    [A |-> {"provider_id", "federation_uid"}, B |-> {"user_id", "provider_id"}]

\* the constraints that inserting row into rows would break
Violated(rows, row) ==
    {k \in DOMAIN UniqueConstraints :
        \E r \in rows : \A c \in UniqueConstraints[k] : r[c] = row[c]}

\* the error an engine answers an INSERT with when constraint k is broken:
\* SQLite's wording under Hiqlite, PostgreSQL's under Postgres
UniqueViolation(engine, k) ==
    IF engine = "hql"
    THEN IF k = "A"
         THEN ErrorResponse_new("Database",
                "UNIQUE constraint failed: user_federations.provider_id, user_federations.federation_uid")
         ELSE ErrorResponse_new("Database",
                "UNIQUE constraint failed: user_federations.user_id, user_federations.provider_id")
    ELSE IF k = "A"
         THEN ErrorResponse_new("Database",
                "db error: ERROR: duplicate key value violates unique constraint \"user_federations_provider_id_federation_uid_key\"")
         ELSE ErrorResponse_new("Database",
                "db error: ERROR: duplicate key value violates unique constraint \"user_federations_pkey\"")

\* storage failures that are no uniqueness violation: the engine cannot be
\* reached, or rejects the statement before running it
Faults ==
    {ErrorResponse_new("Database", "connection refused"),
     ErrorResponse_new("Database", "db error: ERROR: syntax error at or near \"UNIQUE\"")}

\* the error a one-row query answers with when no row matches
NoRows(engine) ==
    IF engine = "hql"
    THEN ErrorResponse_new("NotFound", "Query returned no rows")
    ELSE ErrorResponse_new("NotFound", "query returned an unexpected number of rows")

\* the error a one-row query may answer with when several rows match
ManyRows == ErrorResponse_new("Database", "query returned more than one row")

\* an answer of an engine: the table afterwards, the Result handed back and
\* what caused it
Outcome(rows, res, cause) == [rows |-> rows, res |-> res, cause |-> cause]

\* every answer the engine can give to req when its table holds rows
Outcomes(req, rows) ==
    LET stmt == req.stmt
        hit == Matching(rows, stmt)
        ran ==
            IF req.primitive \in {"execute", "pg_execute"}
            THEN IF stmt.verb = "INSERT"
                 THEN IF Violated(rows, InsertedRow(stmt)) = {}
                      THEN {Outcome(rows \cup {InsertedRow(stmt)}, Ok(1), "ran")}
                      ELSE {Outcome(rows, Err(UniqueViolation(req.engine, k)), "unique") :
                               k \in Violated(rows, InsertedRow(stmt))}
                 ELSE {Outcome(rows \ hit, Ok(Cardinality(hit)), "ran")}
            ELSE IF req.primitive \in {"query_as", "pg_query"}
            THEN {Outcome(rows, Ok({from_row(r) : r \in hit}), "ran")}
            ELSE IF hit = {}
                 THEN {Outcome(rows, Err(NoRows(req.engine)), "ran")}
                 ELSE IF Cardinality(hit) = 1
                      THEN {Outcome(rows, Ok(from_row(CHOOSE r \in hit : TRUE)), "ran")}
                      ELSE {Outcome(rows, Ok(from_row(r)), "ran") : r \in hit}
                               \cup {Outcome(rows, Err(ManyRows), "ran")}
    IN  ran \cup {Outcome(rows, Err(f), "fault") : f \in Faults}

----------------------------------------------------------------------------
(* The calls.                                                              *)

NoCall == [op |-> "none"]
NoRequest == Request("none", "none", Statement("none", <<>>, <<>>, <<>>), 0)
NoError == ErrorResponse_new("none", "")

NoReturn == [call |-> NoCall, req |-> NoRequest, cause |-> "none",
             raw |-> Ok(<<>>), ret |-> Ok(<<>>)]

\* a call suspended at its await
Pending(call, req) == [call |-> call, req |-> req]

\* the operation builds its statement, picks the engine and awaits
Issue(call, req) ==
    /\ BagCardinality(inflight) < MaxInFlight
    /\ inflight' = inflight (+) SetToBag({Pending(call, req)})
    /\ returned' = NoReturn
    /\ UNCHANGED <<hiqlite, tables, linked, unit>>

\* the awaited storage call answers with outcome o and the operation
\* returns ret
Return(e, o, ret) ==
    /\ inflight' = inflight (-) SetToBag({e})
    /\ tables' = [tables EXCEPT ![e.req.engine] = o.rows]
    /\ returned' = [call |-> e.call, req |-> e.req, cause |-> o.cause,
                    raw |-> o.res, ret |-> ret]
    /\ UNCHANGED <<hiqlite, unit>>

create(user_id, provider_id, federation_uid) ==
    LET new_federation == [user_id |-> user_id, provider_id |-> provider_id,
                           federation_uid |-> federation_uid]
    IN  Issue([op |-> "create", new_federation |-> new_federation],
              create_request(new_federation))

create_await(e) ==
    /\ e.call.op = "create"
    /\ \E o \in Outcomes(e.req, tables[e.req.engine]) :
        LET ret == create_result(e.call.new_federation, o.res)
        IN  /\ Return(e, o, ret)
            /\ linked' = IF ret.ok THEN linked \cup {ret.value} ELSE linked

find_for_user(user_id) ==
    Issue([op |-> "find_for_user", user_id |-> user_id],
          find_for_user_request(user_id))

find_for_user_await(e) ==
    /\ e.call.op = "find_for_user"
    /\ \E o \in Outcomes(e.req, tables[e.req.engine]) :
        /\ Return(e, o, find_for_user_result(o.res))
        /\ UNCHANGED linked

find_by_federation_id(provider_id, federation_uid) ==
    Issue([op |-> "find_by_federation_id", provider_id |-> provider_id,
           federation_uid |-> federation_uid],
          find_by_federation_id_request(provider_id, federation_uid))

find_by_federation_id_await(e) ==
    /\ e.call.op = "find_by_federation_id"
    /\ \E o \in Outcomes(e.req, tables[e.req.engine]) :
        /\ Return(e, o, find_by_federation_id_result(o.res))
        /\ UNCHANGED linked

delete(self) ==
    Issue([op |-> "delete", self |-> self], delete_request(self))

delete_await(e) ==
    /\ e.call.op = "delete"
    /\ \E o \in Outcomes(e.req, tables[e.req.engine]) :
        LET ret == delete_result(o.res)
        IN  /\ Return(e, o, ret)
            /\ linked' = IF ret.ok
                         THEN {l \in linked : ~(l.user_id = e.call.self.user_id
                                   /\ l.provider_id = e.call.self.provider_id)}
                         ELSE linked

delete_by_user_id(user_id) ==
    Issue([op |-> "delete_by_user_id", user_id |-> user_id],
          delete_by_user_id_request(user_id))

delete_by_user_id_await(e) ==
    /\ e.call.op = "delete_by_user_id"
    /\ \E o \in Outcomes(e.req, tables[e.req.engine]) :
        LET ret == delete_by_user_id_result(o.res)
        IN  /\ Return(e, o, ret)
            /\ linked' = IF ret.ok
                         THEN {l \in linked : l.user_id # e.call.user_id}
                         ELSE linked

NoUnit == [phase |-> "none", err |-> NoError, mapped |-> NoError]

Init ==
    /\ hiqlite \in BOOLEAN
    /\ tables = [engine \in Engines |-> {}]
    /\ inflight = EmptyBag
    /\ returned = NoReturn
    /\ linked = {}
    /\ unit = NoUnit

Next ==
    \/ \E u \in UserIds, p \in ProviderIds, f \in FederationUids : create(u, p, f)
    \/ \E e \in BagToSet(inflight) : create_await(e)
    \/ \E u \in UserIds : find_for_user(u)
    \/ \E e \in BagToSet(inflight) : find_for_user_await(e)
    \/ \E p \in ProviderIds, f \in FederationUids : find_by_federation_id(p, f)
    \/ \E e \in BagToSet(inflight) : find_by_federation_id_await(e)
    \/ \E self \in UserFederation : delete(self)
    \/ \E e \in BagToSet(inflight) : delete_await(e)
    \/ \E u \in UserIds : delete_by_user_id(u)
    \/ \E e \in BagToSet(inflight) : delete_by_user_id_await(e)

Spec == Init /\ [][Next]_vars

----------------------------------------------------------------------------
(* The classifier on its own, as mod tests applies it: an error is built,  *)
(* map_unique_violation is applied to it, and the answer is inspected.     *)

\* pieces the messages of the errors under test are put together from
Fragments ==
    {"UNIQUE", "UNIQ", "UE", "unique", " constraint failed",
     "some other db error", "db error: ", LinkedMessage}

\* the messages made of at most n fragments
RECURSIVE MessagesOf(_)
MessagesOf(n) ==
    IF n = 0
    THEN {""}
    ELSE MessagesOf(n - 1) \cup {m \o f : m \in MessagesOf(n - 1), f \in Fragments}

\* the errors under test
UnitErrors ==
    {ErrorResponse_new(k, m) : k \in ErrorResponseType, m \in MessagesOf(MaxFragments)}

UnitInit ==
    /\ hiqlite \in BOOLEAN
    /\ tables = [engine \in Engines |-> {}]
    /\ inflight = EmptyBag
    /\ returned = NoReturn
    /\ linked = {}
    /\ unit \in {[phase |-> "built", err |-> e, mapped |-> NoError] : e \in UnitErrors}

\* let mapped = UserFederation::map_unique_violation(err);
test_map_unique_violation ==
    /\ unit.phase = "built"
    /\ unit' = [unit EXCEPT !.phase = "mapped",
                            !.mapped = map_unique_violation(unit.err)]
    /\ UNCHANGED <<hiqlite, tables, inflight, returned, linked>>

UnitNext == test_map_unique_violation

SpecClassifier == UnitInit /\ [][UnitNext]_vars

----------------------------------------------------------------------------
(* Properties of the classifier (checked under SpecClassifier).            *)

\* the outcome the classifier answers a uniqueness violation with
AlreadyLinked == ErrorResponse_new("NotAccepted", LinkedMessage)

\* C1, as stated: every error whose message contains the marker is mapped
\* to kind Conflict with exactly the fixed message.
C1_AsStated ==
    (unit.phase = "mapped" /\ Contains(unit.err.message, Marker))
        => unit.mapped = ErrorResponse_new("Conflict", LinkedMessage)

\* C1, amended: every error, of any kind, whose message contains the marker
\* "UNIQUE" is mapped to kind NotAccepted with exactly the fixed message;
\* neither the kind nor the message of the input remains.
C1_MarkerMapsToNotAccepted ==
    (unit.phase = "mapped" /\ Contains(unit.err.message, Marker))
        => /\ unit.mapped.error = "NotAccepted"
           /\ unit.mapped.message = LinkedMessage
           /\ DOMAIN unit.mapped = {"error", "message"}

\* C1 witness: an error of another kind than Database, with the marker in
\* the middle of its message, has been mapped.
C1_Witness ==
    /\ unit.phase = "mapped"
    /\ unit.err = ErrorResponse_new("Internal", "db error: UNIQUE constraint failed")
    /\ unit.mapped = AlreadyLinked

\* C2: every error whose message does not contain the marker comes back
\* identical, kind and message.
C2_NoMarkerPassesThrough ==
    (unit.phase = "mapped" /\ ~Contains(unit.err.message, Marker))
        => unit.mapped = unit.err

\* C2 witness: an error whose message holds the marker only in lower case,
\* and one that holds only a part of the marker, have passed through.
C2_Witness ==
    /\ unit.phase = "mapped"
    /\ unit.err \in {ErrorResponse_new("NotFound", "unique constraint failed"),
                     ErrorResponse_new("Database", "UNIQ constraint failed")}
    /\ unit.mapped = unit.err

----------------------------------------------------------------------------
(* Properties of the operations (checked under Spec).                      *)

\* rows agree on the columns cols only when they are the same row
UniqueOn(rows, cols) ==
    \A r1 \in rows, r2 \in rows : (\A c \in cols : r1[c] = r2[c]) => r1 = r2

SameFederationId(a, b) ==
    a.provider_id = b.provider_id /\ a.federation_uid = b.federation_uid

SameUserProvider(a, b) ==
    a.user_id = b.user_id /\ a.provider_id = b.provider_id

\* C3, as stated: a create whose insert reaches an engine that already holds
\* a link with the same (provider_id, federation_uid) or the same
\* (user_id, provider_id) fails with the Conflict outcome carrying the fixed
\* message, and leaves the stored links unchanged.  The Conflict outcome is
\* read as the classifier's answer, whose kind the source names NotAccepted
\* (C1).
C3_AsStated ==
    [][(/\ returned'.call.op = "create"
        /\ returned'.cause # "fault"
        /\ \E r \in tables[returned'.req.engine] :
              \/ SameFederationId(r, returned'.call.new_federation)
              \/ SameUserProvider(r, returned'.call.new_federation))
       => (/\ returned'.ret = Err(AlreadyLinked)
           /\ tables' = tables)]_vars

\* C4: in every reachable state at most one link exists for each
\* (provider_id, federation_uid): in the table of each engine, and among the
\* links whose create returned Ok and that have not been deleted since.
C4_InvariantA ==
    /\ \A engine \in Engines :
          UniqueOn(tables[engine], {"provider_id", "federation_uid"})
    /\ UniqueOn(linked, {"provider_id", "federation_uid"})

\* C4 witness: a create for an external identity that another user is
\* linked to has just been turned down, with two links stored.
C4_Witness ==
    /\ returned.call.op = "create"
    /\ returned.cause = "unique"
    /\ ~returned.ret.ok
    /\ Cardinality(tables[returned.req.engine]) >= 2
    /\ \E r \in tables[returned.req.engine] :
          /\ SameFederationId(r, returned.call.new_federation)
          /\ r.user_id # returned.call.new_federation.user_id

\* C5: in every reachable state at most one link exists for each
\* (user_id, provider_id): in the table of each engine, and among the links
\* whose create returned Ok and that have not been deleted since.
C5_InvariantB ==
    /\ \A engine \in Engines :
          UniqueOn(tables[engine], {"user_id", "provider_id"})
    /\ UniqueOn(linked, {"user_id", "provider_id"})

\* C5 witness: a second link of a user to a provider they are linked to
\* has just been turned down, while the user holds links to both providers.
C5_Witness ==
    /\ returned.call.op = "create"
    /\ returned.cause = "unique"
    /\ ~returned.ret.ok
    /\ \E r \in tables[returned.req.engine] :
          /\ SameUserProvider(r, returned.call.new_federation)
          /\ r.federation_uid # returned.call.new_federation.federation_uid
    /\ \E r \in tables[returned.req.engine] :
          /\ r.user_id = returned.call.new_federation.user_id
          /\ r.provider_id # returned.call.new_federation.provider_id

\* C6, as stated: whichever engine is selected and whatever the wording of
\* its uniqueness-violation error, a create that hits a uniqueness violation
\* returns the classifier's answer with the fixed message, and never the
\* error the engine gave.
C6_AsStated ==
    (returned.call.op = "create" /\ returned.cause = "unique")
        => /\ ~returned.ret.ok
           /\ returned.ret.error.message = LinkedMessage
           /\ returned.ret.error # returned.raw.error

\* C7: when find_by_federation_id(p, f) runs while a link (u, p, f) is held
\* as created (its create returned Ok, no delete of it since), it returns Ok
\* with exactly that link.
C7_RoundTrip ==
    (returned.call.op = "find_by_federation_id" /\ returned.cause = "ran")
        => \A l \in linked :
              (/\ l.provider_id = returned.call.provider_id
               /\ l.federation_uid = returned.call.federation_uid)
                  => returned.ret = Ok(l)

\* C7 witness: a lookup has returned a created link while another link of
\* the same provider is stored.
C7_Witness ==
    /\ returned.call.op = "find_by_federation_id"
    /\ returned.ret.ok
    /\ returned.ret.value \in linked
    /\ returned.ret.value.provider_id = returned.call.provider_id
    /\ returned.ret.value.federation_uid = returned.call.federation_uid
    /\ \E l \in linked :
          /\ l # returned.ret.value
          /\ l.provider_id = returned.call.provider_id

\* C8: on either engine, when find_by_federation_id(p, f) runs while no link
\* with (p, f) is held as created (none was created, or it was deleted), it
\* fails with kind NotFound.
C8_NotFound ==
    (/\ returned.call.op = "find_by_federation_id"
     /\ returned.cause = "ran"
     /\ ~\E l \in linked :
            /\ l.provider_id = returned.call.provider_id
            /\ l.federation_uid = returned.call.federation_uid)
        => /\ ~returned.ret.ok
           /\ returned.ret.error.error = "NotFound"

\* C8 witness: a lookup has failed with NotFound while links with the same
\* provider and with the same federation uid are stored.
C8_Witness ==
    /\ returned.call.op = "find_by_federation_id"
    /\ ~returned.ret.ok
    /\ returned.ret.error.error = "NotFound"
    /\ \E l \in linked : l.provider_id = returned.call.provider_id
    /\ \E l \in linked : l.federation_uid = returned.call.federation_uid

\* C9: a delete(u, p) that runs while no link with key (u, p) is stored
\* returns Ok and changes nothing, and after every delete that returned Ok
\* no link with key (u, p) is stored: deleting twice is deleting once.
C9_DeleteIdempotent ==
    [][/\ (/\ returned'.call.op = "delete"
           /\ returned'.cause = "ran"
           /\ ~\E r \in tables[returned'.req.engine] :
                  SameUserProvider(r, returned'.call.self))
          => (/\ returned'.ret = Ok(<<>>)
              /\ tables' = tables
              /\ linked' = linked)
       /\ (returned'.call.op = "delete" /\ returned'.ret.ok)
          => ~\E r \in tables'[returned'.req.engine] :
                  SameUserProvider(r, returned'.call.self)]_vars

\* C9 witness: a delete that removed no row has returned Ok while other
\* links are stored.
C9_Witness ==
    /\ returned.call.op = "delete"
    /\ returned.raw = Ok(0)
    /\ returned.ret = Ok(<<>>)
    /\ tables[returned.req.engine] # {}

\* C10: after delete_by_user_id(u) returned Ok no link of u is stored,
\* however many there were, and a find_for_user(u) that runs while no link
\* of u is held as created returns the empty sequence.
C10_BulkCleanup ==
    /\ (returned.call.op = "delete_by_user_id" /\ returned.ret.ok)
          => /\ ~\E r \in tables[returned.req.engine] : r.user_id = returned.call.user_id
             /\ ~\E l \in linked : l.user_id = returned.call.user_id
    /\ (/\ returned.call.op = "find_for_user"
        /\ returned.cause = "ran"
        /\ ~\E l \in linked : l.user_id = returned.call.user_id)
          => returned.ret = Ok({})

\* C10 witness: one delete_by_user_id has removed two links of a user and
\* left the link of another user.
C10_Witness ==
    /\ returned.call.op = "delete_by_user_id"
    /\ returned.raw = Ok(2)
    /\ returned.ret = Ok(<<>>)
    /\ tables[returned.req.engine] # {}

----------------------------------------------------------------------------
(* find_for_user over tables that hold many links of one user: more than   *)
(* the size hint handed to DB::pg_query.                                   *)

\* providers a user is linked to in these tables, in the order they are used
ProviderNames ==
    <<"idp01", "idp02", "idp03", "idp04", "idp05", "idp06", "idp07", "idp08",
      "idp09", "idp10", "idp11", "idp12", "idp13", "idp14", "idp15", "idp16">>

\* a table in which u1 is linked to the first n providers and u2 to the
\* first m, each by one atomic create
ManyLinks(n, m) ==
    {[user_id |-> "u1", provider_id |-> ProviderNames[i], federation_uid |-> "x"] :
        i \in 1..n}
    \cup
    {[user_id |-> "u2", provider_id |-> ProviderNames[i], federation_uid |-> "y"] :
        i \in 1..m}

ManyInit ==
    /\ hiqlite \in BOOLEAN
    /\ \E n \in 0..MaxLinks, m \in 0..2 :
          /\ tables = [engine \in Engines |->
                          IF engine = (IF hiqlite THEN "hql" ELSE "pg")
                          THEN ManyLinks(n, m) ELSE {}]
          /\ linked = ManyLinks(n, m)
    /\ inflight = EmptyBag
    /\ returned = NoReturn
    /\ unit = NoUnit

ManyNext ==
    \/ \E u \in UserIds : find_for_user(u)
    \/ \E e \in BagToSet(inflight) : find_for_user_await(e)

SpecManyLinks == ManyInit /\ [][ManyNext]_vars

\* C11: on either engine, a find_for_user(u) whose query runs returns Ok
\* with exactly the stored links whose user_id is u: the empty collection
\* when there are none, and all of them however many there are, also when
\* they are more than the size hint handed to DB::pg_query.
C11_FindForUserExact ==
    (returned.call.op = "find_for_user" /\ returned.cause = "ran")
        => /\ returned.ret.ok
           /\ returned.ret.value =
                 {from_row(r) : r \in {t \in tables[returned.req.engine] :
                                          t.user_id = returned.call.user_id}}
           /\ returned.ret.value = {l \in linked : l.user_id = returned.call.user_id}

\* C11 witness: on Postgres, with the hint of 10, a user's links have been
\* returned and they are more than 10, while another user holds links too.
C11_Witness ==
    /\ returned.call.op = "find_for_user"
    /\ returned.req.engine = "pg"
    /\ returned.req.size_hint = PgSizeHint
    /\ returned.ret.ok
    /\ Cardinality(returned.ret.value) > PgSizeHint
    /\ Cardinality(tables["pg"]) > Cardinality(returned.ret.value)

----------------------------------------------------------------------------
(* Further properties of the operations (checked under Spec).              *)

\* C12, as stated: a create whose storage failure is no uniqueness
\* violation returns that failure with kind Database and with kind and
\* message as the engine gave them, whatever text the message contains.
C12_AsStated ==
    (returned.call.op = "create" /\ returned.cause = "fault")
        => /\ returned.ret = Err(returned.raw.error)
           /\ returned.ret.error.error = "Database"

\* C13, as stated: when creates race on the same (provider_id,
\* federation_uid) or the same (user_id, provider_id), at most one of them
\* succeeds and every other one fails with the Conflict outcome (read as in
\* C3), storing nothing: once one racer has returned Ok, a racer that was in
\* flight with it and whose insert then runs is turned down.
C13_AsStated ==
    [][(/\ returned.call.op = "create"
        /\ returned.ret.ok
        /\ returned'.call.op = "create"
        /\ returned'.cause # "fault"
        /\ \/ SameFederationId(returned.call.new_federation,
                               returned'.call.new_federation)
           \/ SameUserProvider(returned.call.new_federation,
                               returned'.call.new_federation))
       => (/\ returned'.ret = Err(AlreadyLinked)
           /\ tables' = tables
           /\ linked' = linked)]_vars

\* the engine the process is configured for
ConfiguredEngine == IF hiqlite THEN "hql" ELSE "pg"

\* the engine the process is not configured for
OtherEngine == IF hiqlite THEN "pg" ELSE "hql"

FinderOps == {"find_for_user", "find_by_federation_id"}

DeleterOps == {"delete", "delete_by_user_id"}

\* C15: every operation issues exactly one statement, against the configured
\* engine: a step that starts a call adds one pending statement for that
\* engine, a step in which a call returns takes that one statement away and
\* adds none (no retry, no failover), the other engine is never touched, and
\* a failed statement makes the call fail with the table as it was.
C15_OneStatementOneEngine ==
    [][/\ \A e \in BagToSet(inflight') : e.req.engine = ConfiguredEngine
       /\ tables'[OtherEngine] = tables[OtherEngine]
       /\ returned' = NoReturn =>
            BagCardinality(inflight') = BagCardinality(inflight) + 1
       /\ returned' # NoReturn =>
            /\ returned'.req.engine = ConfiguredEngine
            /\ inflight' (+) SetToBag({Pending(returned'.call, returned'.req)})
                  = inflight
            /\ ~returned'.raw.ok =>
                  /\ ~returned'.ret.ok
                  /\ tables' = tables]_vars

\* a delete has failed at the storage call and has returned the failure,
\* with no statement left in flight and the link it named still stored
C15_Witness ==
    /\ returned.call.op = "delete"
    /\ returned.cause = "fault"
    /\ ~returned.ret.ok
    /\ returned.req.engine = ConfiguredEngine
    /\ inflight = EmptyBag
    /\ \E r \in tables[ConfiguredEngine] :
          /\ r.user_id = returned.call.self.user_id
          /\ r.provider_id = returned.call.self.provider_id

\* C16: delete(u, p) removes at most the one link keyed (u, p) and
\* delete_by_user_id(u) removes only links of u; every other stored link is
\* still stored, unchanged, when the call returns.
C16_DeleteFrame ==
    [][/\ returned'.call.op = "delete" =>
            LET self == returned'.call.self
                before == tables[returned'.req.engine]
                after == tables'[returned'.req.engine]
            IN  /\ after \subseteq before
                /\ Cardinality(before \ after) <= 1
                /\ \A r \in before \ after :
                      r.user_id = self.user_id /\ r.provider_id = self.provider_id
       /\ returned'.call.op = "delete_by_user_id" =>
            LET before == tables[returned'.req.engine]
                after == tables'[returned'.req.engine]
            IN  /\ after \subseteq before
                /\ \A r \in before \ after : r.user_id = returned'.call.user_id]_vars

\* a delete has removed its link while another link of the same user and a
\* link of another user with the same provider stay stored
C16_Witness ==
    /\ returned.call.op = "delete"
    /\ returned.raw = Ok(1)
    /\ \E r \in tables[returned.req.engine] :
          /\ r.user_id = returned.call.self.user_id
          /\ r.provider_id # returned.call.self.provider_id
    /\ \E r \in tables[returned.req.engine] :
          /\ r.user_id # returned.call.self.user_id
          /\ r.provider_id = returned.call.self.provider_id

\* C17: the stored links change only when a create succeeds, which adds
\* exactly the triple it was given, or when a delete or delete_by_user_id
\* removes rows; a find leaves them as they were whether it succeeds or
\* fails, and no stored link is replaced by one with other fields.
C17_OnlyCreateAndDeleteWrite ==
    [][/\ returned'.call.op \in FinderOps => tables' = tables
       /\ tables' # tables =>
            LET before == tables[returned'.req.engine]
                after == tables'[returned'.req.engine]
            IN  \/ /\ returned'.call.op = "create"
                   /\ returned'.ret = Ok(returned'.call.new_federation)
                   /\ returned'.call.new_federation \notin before
                   /\ after = before \cup {returned'.call.new_federation}
                \/ /\ returned'.call.op \in DeleterOps
                   /\ after \subseteq before]_vars

\* a create has succeeded and its triple is stored next to an older link
C17_Witness ==
    /\ returned.call.op = "create"
    /\ returned.ret.ok
    /\ returned.call.new_federation \in tables[returned.req.engine]
    /\ Cardinality(tables[returned.req.engine]) >= 2

\* C18: only create classifies: a storage failure of find_for_user,
\* find_by_federation_id, delete or delete_by_user_id comes back with its kind
\* and message unchanged, marker or not, and the already-linked outcome (the
\* Conflict outcome as in C3) is returned by create alone.
C18_ClassifierOnCreateOnly ==
    /\ (returned.call.op \in FinderOps \cup DeleterOps /\ ~returned.raw.ok)
          => returned.ret = Err(returned.raw.error)
    /\ (~returned.ret.ok /\ returned.ret.error = AlreadyLinked)
          => returned.call.op = "create"

\* a find_for_user has failed with a storage error whose message holds the
\* marker, and has returned that error as it was
C18_Witness ==
    /\ returned.call.op = "find_for_user"
    /\ ~returned.raw.ok
    /\ Contains(returned.raw.error.message, Marker)
    /\ returned.ret = Err(returned.raw.error)

====
